---- MODULE Spec2Model ----
(***************************************************************************)
(* Closed-loop reachability analysis of a neural-network controlled        *)
(* system (mit-acl/nn_robustness_analysis).                                *)
(*                                                                         *)
(* Real numbers are modelled exactly: states, controls and noise are        *)
(* integers, time is counted in ticks of which np.finfo(float).eps is one   *)
(* (Eps), and regions produced by partitioning are rationals with an        *)
(* explicit common denominator.                                             *)
(***************************************************************************)
EXTENDS Integers, Sequences, FiniteSets, TLC

\* ------------------------------------------------------------------ bounds
\* largest horizon t_max, in ticks
MaxTmax == 8
\* largest num_samples argument
MaxSamples == 3
\* largest number of cells per dimension of a uniform partition
MaxCells == 2
\* period of the modelled random generator
RngPeriod == 3
\* a draw of random() is g / RngGrain with g in 0..RngGrain
RngGrain == 1
\* the integer grid on which polytopes are evaluated is -GridMax..GridMax
GridMax == 2

\* np.finfo(float).eps, the unit of time
Eps == 1

\* --------------------------------------------------------- vector helpers
Min(a, b) == IF a <= b THEN a ELSE b
Max(a, b) == IF a >= b THEN a ELSE b

RECURSIVE SumTo(_, _)
SumTo(f, k) == IF k = 0 THEN 0 ELSE f[k] + SumTo(f, k - 1)

\* np.dot of two vectors
Dot(a, b) == SumTo([i \in 1..Len(a) |-> a[i] * b[i]], Len(a))

\* np.dot(M, v) for a matrix M given by its rows
MatVec(M, v) == [i \in 1..Len(M) |-> Dot(M[i], v)]

VecAdd(a, b) == [i \in 1..Len(a) |-> a[i] + b[i]]

Zeros(k) == [i \in 1..k |-> 0]

\* None is the empty tuple
None == << >>
IsNone(x) == x = << >>

\* ceil(a / b) for a >= 0, b > 0
CeilDiv(a, b) == (a + b - 1) \div b

\* ------------------------------------------------------ convex regions
\* constraints.LpInputConstraint(range, p): range[i] = <<low_i, high_i>>
LpInputConstraint(range, p) == [type |-> "Lp", p |-> p, range |-> range]

\* constraints.PolytopeInputConstraint(A, b): { x : A x <= b }
PolytopeInputConstraint(A, b) == [type |-> "Polytope", A |-> A, b |-> b]

\* low <= x <= high componentwise
InBox(range, x) == \A i \in 1..Len(range) : range[i][1] <= x[i] /\ x[i] <= range[i][2]

\* np.all(np.dot(A, x) - b <= 0)
InPolytope(A, b, x) == \A k \in 1..Len(A) : Dot(A[k], x) - b[k] <= 0

\* utils.init_state_range_to_polytope: A = [I; -I], b = [high; -low]
InitStateRangeToPolytopeA(n) ==
    [k \in 1..(2 * n) |->
        [j \in 1..n |-> IF k <= n THEN (IF j = k THEN 1 ELSE 0)
                        ELSE (IF j = k - n THEN -1 ELSE 0)]]

\* an offset vector [high; low]
InitStateRangeToPolytopeBUnsigned(range) ==
    LET n == Len(range)
    IN  [k \in 1..(2 * n) |-> IF k <= n THEN range[k][2] ELSE range[k - n][1]]

InitStateRangeToPolytopeB(range) ==
    LET n == Len(range)
    IN  [k \in 1..(2 * n) |-> IF k <= n THEN range[k][2] ELSE -range[k - n][1]]

init_state_range_to_polytope(range) ==
    [A |-> InitStateRangeToPolytopeA(Len(range)), b |-> InitStateRangeToPolytopeB(range)]

\* the grid points of dimension n
Grid(n) == [1..n -> (-GridMax)..GridMax]

PolytopePoints(A, b, n) == {x \in Grid(n) : InPolytope(A, b, x)}

\* the extreme points of the polytope: the points that are not the middle of
\* two other points of it
ExtremePoints(A, b, n) ==
    UNION { {x \in P : ~ \E y \in P : y /= x /\ [i \in 1..n |-> 2 * x[i] - y[i]] \in P}
            : P \in {PolytopePoints(A, b, n)} }

SetMin(S) == CHOOSE m \in S : \A k \in S : m <= k
SetMax(S) == CHOOSE m \in S : \A k \in S : m >= k

\* PolytopeInputConstraint.to_linf: per-dimension min / max over the vertices
to_linf(A, b) ==
    CHOOSE range \in { [i \in 1..Len(A[1]) |->
                          << SetMin({v[i] : v \in V}), SetMax({v[i] : v \in V}) >>]
                       : V \in {ExtremePoints(A, b, Len(A[1]))} } : TRUE

\* ------------------------------------------------- global random source
RngStates == 0..(RngPeriod - 1)

\* np.random.seed(s): the generator's state becomes a function of s alone
Seed(s) == s % RngPeriod

\* the generator state reached from r after k draws
Advance(r, k) == (r + k) % RngPeriod

\* np.random.uniform(low, high) from one draw g / RngGrain of random()
Uniform(g, low, high) == low + ((high - low) * g) \div RngGrain

\* ------------------------------------------------------------ Dynamics
\* Dynamics.__init__: num_states, num_inputs = bt.shape; c defaults to eye
Dynamics(At, bt, ct, u_limits, dt, c, sensor_noise, process_noise) ==
    [At |-> At, bt |-> bt, ct |-> ct,
     num_states |-> Len(bt), num_inputs |-> Len(bt[1]),
     c |-> IF IsNone(c)
           THEN [i \in 1..Len(bt) |-> [j \in 1..Len(bt) |-> IF i = j THEN 1 ELSE 0]]
           ELSE c,
     sensor_noise |-> sensor_noise, process_noise |-> process_noise,
     u_limits |-> u_limits, dt |-> dt]

\* a feed-forward controller with one hidden ReLU layer
Sequential(W1, b1, W2, b2) ==
    [type |-> "Sequential", W1 |-> W1, b1 |-> b1, W2 |-> W2, b2 |-> b2]

Relu(v) == [i \in 1..Len(v) |-> Max(v[i], 0)]

\* model.forward on one row of the batch
Forward(model, x) ==
    VecAdd(MatVec(model.W2, Relu(VecAdd(MatVec(model.W1, x), model.b1))), model.b2)

\* Dynamics.control_nn: the controller evaluated on every row of the batch
control_nn(x, model) == [r \in 1..Len(x) |-> Forward(model, x[r])]

\* a clip that forgets the lower limit
Clip1Upper(v, lo, hi) == Min(v, hi)

\* np.clip(u, lo, hi) on one number: minimum(maximum(u, lo), hi)
Clip1(v, lo, hi) == Min(Max(v, lo), hi)

\* np.clip(u, u_limits[:, 0], u_limits[:, 1]) on the batch
Clip(u, u_limits) ==
    [r \in 1..Len(u) |->
        [j \in 1..Len(u[r]) |-> Clip1(u[r][j], u_limits[j][1], u_limits[j][2])]]

\* the subclass's control_mpc: a saturated linear feedback on the first
\* observed coordinate
control_mpc(self, x0) ==
    [r \in 1..Len(x0) |-> [j \in 1..self.num_inputs |-> Clip1(-x0[r][1], -1, 1)]]

\* np.random.uniform(low=noise[:, 0], high=noise[:, 1], size=(runs, n)) from
\* the draws d, taken row by row
UniformBatch(d, range, runs) ==
    LET n == Len(range)
    IN  [r \in 1..runs |->
            [i \in 1..n |-> Uniform(d[(r - 1) * n + (i - 1)], range[i][1], range[i][2])]]

\* the number of draws observe_step takes for a batch of `runs` rows
ObserveDraws(self, runs) ==
    IF IsNone(self.sensor_noise) THEN 0 ELSE runs * self.num_states

\* Dynamics.observe_step: obs = xs . c^T (+ sensor noise)
observe_step(self, xs_t, d) ==
    LET obs == [r \in 1..Len(xs_t) |-> MatVec(self.c, xs_t[r])]
    IN  IF IsNone(self.sensor_noise) THEN obs
        ELSE LET noise == UniformBatch(d, self.sensor_noise, Len(xs_t))
             IN  [r \in 1..Len(xs_t) |-> VecAdd(obs[r], noise[r])]

DynamicsDraws(self, runs) ==
    IF IsNone(self.process_noise) THEN 0 ELSE runs * self.num_states

\* the subclass's dynamics_step: xs_t1 = At xs + bt us + ct (+ process noise)
dynamics_step(self, xs_t, us_t, d) ==
    LET nxt == [r \in 1..Len(xs_t) |->
                   VecAdd(VecAdd(MatVec(self.At, xs_t[r]), MatVec(self.bt, us_t[r])),
                          self.ct)]
    IN  IF IsNone(self.process_noise) THEN nxt
        ELSE LET noise == UniformBatch(d, self.process_noise, Len(xs_t))
             IN  [r \in 1..Len(xs_t) |-> VecAdd(nxt[r], noise[r])]

\* ------------------------------------------------------ the inputs explored
\* the systems: a 1-D integrator observed negated and with sensor noise, under
\* control limits; a 1-D integrator with process noise and no limits; a 2-D
\* double integrator under control limits
DynamicsSet ==
    { Dynamics(<< <<1>> >>, << <<1>> >>, <<1>>, << <<-1, 1>> >>, 4, << <<-1>> >>,
               << <<0, 1>> >>, None),
      Dynamics(<< <<1>> >>, << <<-1>> >>, <<0>>, None, 5, None, None, << <<-1, 1>> >>),
      Dynamics(<< <<1, 1>>, <<0, 1>> >>, << <<1>>, <<2>> >>, <<0, 0>>, << <<-1, 1>> >>, 4,
               None, None, None) }

\* the controller arguments of run for a system of n states: "mpc", a network
\* (a torch Sequential for one state, its bound-propagation wrapper for two),
\* anything else
ControllersFor(n) ==
    LET W1 == IF n = 1 THEN << <<1>>, <<-1>> >> ELSE << <<1, 1>>, <<-1, -1>> >>
        net == Sequential(W1, <<0, -1>>, << <<-2, 2>> >>, <<0>>)
    IN  { [type |-> "mpc"],
          IF n = 1 THEN net ELSE [net EXCEPT !.type = "BoundClosedLoopController"],
          [type |-> "other"] }

\* the input regions for a system of n states: boxes (one of zero width, one
\* with a norm other than infinity), a polytope, and something that is neither
InputConstraintsFor(n) ==
    IF n = 1
    THEN { LpInputConstraint(<< <<0, 2>> >>, "inf"),
           LpInputConstraint(<< <<1, 1>> >>, "inf"),
           LpInputConstraint(<< <<0, 2>> >>, "2"),
           PolytopeInputConstraint(<< <<1>>, <<-1>>, <<2>> >>, <<2, 1, 5>>),
           [type |-> "Other"] }
    ELSE { LpInputConstraint(<< <<0, 2>>, <<-1, 0>> >>, "inf"),
           LpInputConstraint(<< <<0, 2>>, <<-1, 0>> >>, "1"),
           PolytopeInputConstraint(<< <<-1, 0>>, <<0, -1>>, <<1, 1>> >>, <<0, 0, 2>>),
           [type |-> "Other"] }

\* the arguments of Dynamics.run
ArgsFor(self) ==
    [t_max : 0..MaxTmax,
     input_constraint : InputConstraintsFor(self.num_states),
     num_samples : {1, MaxSamples},
     collect_data : BOOLEAN,
     clip_control : BOOLEAN,
     controller : ControllersFor(self.num_states),
     merge_cols : BOOLEAN]

\* =====================================================================
\* Dynamics.run as a state machine
\* =====================================================================
VARIABLES
    dyn,            \* self
    args,           \* the arguments of the call
    call,           \* 1 or 2: which of two calls with the same arguments
    pc,             \* the position in run
    rng,            \* the state of the global random source
    tape,           \* the generator's output per state, -1 where not yet drawn
    num_timesteps,
    bound,          \* whether num_runs, xs and us are bound (collect_data)
    num_runs,
    xs,             \* xs[run][time index + 1][state]
    us,             \* us[run][time index + 1][input]
    t,
    step,
    obs,
    u,
    ret,            \* what the call returned or raised
    ret1,           \* what the first call returned or raised
    xs_writes,      \* per time index, how often xs[:, index, :] was assigned
    us_writes,      \* per time index, how often us[:, index, :] was assigned
    \* ClosedLoopAnalyzer.get_reachable_set
    reach_pc,       \* the position in get_reachable_set
    partitioner,    \* the partitioning policy
    elapsed,        \* the accumulated time of the analysis
    current_input,  \* the input region of the timestep under way
    sub_regions,    \* the cells of the timestep under way
    cell_outputs,   \* the output of each cell propagated so far
    output_trajectory,  \* one output region per finished timestep
    \* the partitioner and the conversions between the two encodings
    region_pc,      \* which operation has been applied
    region_box,     \* the input box
    region_policy,  \* the partitioning policy
    region_cells,   \* partition(region_box, region_policy)
    region_polytope,    \* the box as a polytope
    region_back,    \* the polytope's enclosing box
    \* the drivers' main(args)
    main_pc,        \* the position in main
    driver,         \* which example.py
    margs,          \* the parsed arguments
    locals,         \* the names bound in main's frame
    main_exc,       \* the exception main raised, "" if none
    calls,          \* the number of calls of get_reachable_set
    \* Dynamics.get_sampled_output_range and Dynamics.collect_data
    sample_pc,      \* the position in the sampling operation
    sample_op,      \* which of the two operations is called
    sampled_range,  \* sampled_range[t][state] = << min, max >>
    sample_ret      \* what the operation returned or raised

reachVars == << reach_pc, partitioner, elapsed, current_input, sub_regions, cell_outputs,
                output_trajectory >>

regionVars == << region_pc, region_box, region_policy, region_cells, region_polytope,
                 region_back >>

mainVars == << main_pc, driver, margs, locals, main_exc, calls >>

runVars == << dyn, args, call, pc, rng, tape, num_timesteps, bound, num_runs,
              xs, us, t, step, obs, u, ret, ret1, xs_writes, us_writes >>

sampleVars == << sample_pc, sample_op, sampled_range, sample_ret >>

\* a region that is not there yet
NoRegion == [den |-> 0, range |-> << >>]

\* get_reachable_set is not running
ReachOff ==
    /\ reach_pc = "off"
    /\ partitioner = [type |-> "None", num_partitions |-> << >>]
    /\ elapsed = 0
    /\ current_input = NoRegion
    /\ sub_regions = << >>
    /\ cell_outputs = << >>
    /\ output_trajectory = << >>

\* no region operation is under way
RegionOff ==
    /\ region_pc = "off"
    /\ region_box = << >>
    /\ region_policy = [type |-> "None", num_partitions |-> << >>]
    /\ region_cells = << >>
    /\ region_polytope = << >>
    /\ region_back = << >>

\* main is not running
MainOff ==
    /\ main_pc = "off"
    /\ driver = ""
    /\ margs = << >>
    /\ locals = {}
    /\ main_exc = ""
    /\ calls = 0

\* no sampling operation is under way
SampleOff ==
    /\ sample_pc = "off"
    /\ sample_op = ""
    /\ sampled_range = << >>
    /\ sample_ret = [kind |-> "none", exc |-> ""]

NoRet == [kind |-> "none", exc |-> "", xs |-> << >>, us |-> << >>]
Raise(e) == [kind |-> "raise", exc |-> e, xs |-> << >>, us |-> << >>]
Return(x, v) == [kind |-> "return", exc |-> "", xs |-> x, us |-> v]

\* np.zeros((runs, timesteps, k))
ZerosArray(runs, timesteps, k) ==
    [r \in 1..runs |-> [j \in 1..timesteps |-> Zeros(k)]]

\* arr[:, j, :] (j counted from 0)
Slice(arr, j) == [r \in 1..Len(arr) |-> arr[r][j + 1]]

\* arr[:, j, :] = rows
SetSlice(arr, j, rows) == [r \in 1..Len(arr) |-> [arr[r] EXCEPT ![j + 1] = rows[r]]]

\* the tapes that extend tp by the k draws taken from generator state r
RECURSIVE Fill(_, _, _)
Fill(tp, r, k) ==
    IF k = 0 THEN {tp}
    ELSE IF tp[r] /= -1 THEN Fill(tp, Advance(r, 1), k - 1)
    ELSE UNION { Fill([tp EXCEPT ![r] = g], Advance(r, 1), k - 1) : g \in 0..RngGrain }

\* the k draws taken from generator state r, counted from 0
DrawsOf(tp, r, k) == [i \in 0..(k - 1) |-> tp[Advance(r, i)]]

\* the rows of arr at the positions in keep, in order
RECURSIVE SelectRows(_, _, _)
SelectRows(arr, keep, r) ==
    IF r > Len(arr) THEN << >>
    ELSE (IF r \in keep THEN << arr[r] >> ELSE << >>) \o SelectRows(arr, keep, r + 1)

\* arr.reshape(-1, k): the rows of every run, run after run
RECURSIVE Reshape(_, _)
Reshape(arr, r) == IF r > Len(arr) THEN << >> ELSE arr[r] \o Reshape(arr, r + 1)

\* the locals of run before a call
RunLocalsOff ==
    /\ call = 1
    /\ rng = Seed(0)
    /\ tape = [p \in RngStates |-> -1]
    /\ num_timesteps = 0
    /\ bound = FALSE
    /\ num_runs = 0
    /\ xs = << >>
    /\ us = << >>
    /\ t = 0
    /\ step = 0
    /\ obs = << >>
    /\ u = << >>
    /\ ret = NoRet
    /\ ret1 = NoRet
    /\ xs_writes = << >>
    /\ us_writes = << >>

RunInit ==
    /\ dyn \in DynamicsSet
    /\ args \in ArgsFor(dyn)
    /\ pc = "idle"
    /\ RunLocalsOff

\* other code draws from the global random source before the first call (the
\* second call finds the source as the first call left it)
Consume ==
    /\ UNCHANGED << reachVars, regionVars, mainVars, sampleVars >>
    /\ UNCHANGED << xs_writes, us_writes >>
    /\ pc = "idle"
    /\ call = 1
    /\ rng' = Advance(rng, 1)
    /\ UNCHANGED << dyn, args, call, pc, tape, num_timesteps, bound, num_runs,
                    xs, us, t, step, obs, u, ret, ret1 >>

\* an entry that does not reseed
EntrySeedKept(collect_data) == rng

\* the seed the generator is left with by lines 179-184
EntrySeed(collect_data) == IF collect_data THEN Seed(1) ELSE Seed(0)

\* num_timesteps = int((t_max + dt + eps) / dt)
NumTimesteps(t_max, dt) == (t_max + dt + Eps) \div dt

\* lines 179-187: reseed, size the buffers
RunEntry ==
    /\ UNCHANGED << reachVars, regionVars, mainVars, sampleVars >>
    /\ pc = "idle"
    /\ rng' = EntrySeed(args.collect_data)
    /\ num_timesteps' = NumTimesteps(args.t_max, dyn.dt)
    /\ IF args.collect_data
       THEN /\ bound' = TRUE
            /\ num_runs' = args.num_samples \div num_timesteps'
            /\ xs' = ZerosArray(num_runs', num_timesteps', dyn.num_states)
            /\ us' = ZerosArray(num_runs', num_timesteps', dyn.num_inputs)
            /\ xs_writes' = [k \in 1..num_timesteps' |-> 0]
            /\ us_writes' = [k \in 1..num_timesteps' |-> 0]
       ELSE UNCHANGED << bound, num_runs, xs, us, xs_writes, us_writes >>
    /\ pc' = "initial_state"
    /\ UNCHANGED << dyn, args, call, tape, t, step, obs, u, ret, ret1 >>

\* the box the initial states are drawn from
InitStateRange(c) == IF c.type = "Lp" THEN c.range ELSE to_linf(c.A, c.b)

\* a filter that keeps every run
WithinConstraintIndsAll(c, x0) == 1..Len(x0)

\* the runs kept by lines 205-216: those whose initial state is in the polytope
WithinConstraintInds(c, x0) ==
    IF c.type = "Polytope"
    THEN {r \in 1..Len(x0) : InPolytope(c.A, c.b, x0[r])}
    ELSE 1..Len(x0)

\* lines 188-221: draw the initial states
RunInitialState ==
    /\ UNCHANGED << reachVars, regionVars, mainVars, sampleVars >>
    /\ pc = "initial_state"
    /\ LET c == args.input_constraint
       IN  IF c.type \notin {"Lp", "Polytope"} \/ (c.type = "Lp" /\ c.p /= "inf")
           THEN /\ ret' = Raise("NotImplementedError")
                /\ pc' = "raised"
                /\ UNCHANGED << rng, tape, xs, us, t, step, xs_writes >>
           ELSE IF ~bound
           THEN /\ ret' = Raise("UnboundLocalError")
                /\ pc' = "raised"
                /\ UNCHANGED << rng, tape, xs, us, t, step, xs_writes >>
           ELSE \E range \in {InitStateRange(c)} :
                \E tp \in Fill(tape, rng, num_runs * dyn.num_states) :
                   LET d == DrawsOf(tp, rng, num_runs * dyn.num_states)
                       x0 == UniformBatch(d, range, num_runs)
                       keep == WithinConstraintInds(c, x0)
                   IN  /\ tape' = tp
                       /\ rng' = Advance(rng, num_runs * dyn.num_states)
                       /\ xs' = SelectRows(SetSlice(xs, 0, x0), keep, 1)
                       /\ xs_writes' = [xs_writes EXCEPT ![1] = @ + 1]
                       /\ us' = SelectRows(us, keep, 1)
                       /\ t' = 0
                       /\ step' = 0
                       /\ pc' = "loop"
                       /\ ret' = ret
    /\ UNCHANGED << dyn, args, call, num_timesteps, bound, num_runs, obs, u, ret1,
                    us_writes >>

\* line 222: while t < t_max
LoopCondition(tt, t_max) == tt < t_max

\* line 245: t += self.dt + np.finfo(float).eps
NextTime(tt, dt) == tt + dt + Eps

\* line 226: the rows observe_step is given
ObservedRows(arr, k) == Slice(arr, k)

\* lines 224-226: observe the current state
RunObserve ==
    /\ UNCHANGED << reachVars, regionVars, mainVars, sampleVars >>
    /\ UNCHANGED << xs_writes, us_writes >>
    /\ pc = "loop"
    /\ LoopCondition(t, args.t_max)
    /\ IF step >= num_timesteps
       THEN /\ ret' = Raise("IndexError")
            /\ pc' = "raised"
            /\ UNCHANGED << rng, tape, obs >>
       ELSE \E tp \in Fill(tape, rng, ObserveDraws(dyn, Len(xs))) :
               /\ tape' = tp
               /\ rng' = Advance(rng, ObserveDraws(dyn, Len(xs)))
               /\ obs' = observe_step(dyn, ObservedRows(xs, step),
                                      DrawsOf(tp, rng, ObserveDraws(dyn, Len(xs))))
               /\ pc' = "control"
               /\ ret' = ret
    /\ UNCHANGED << dyn, args, call, num_timesteps, bound, num_runs, xs, us, t, step,
                    u, ret1 >>

\* lines 228-236: the control for the observation
RunControl ==
    /\ UNCHANGED << reachVars, regionVars, mainVars, sampleVars >>
    /\ UNCHANGED << xs_writes, us_writes >>
    /\ pc = "control"
    /\ IF args.controller.type = "mpc"
       THEN /\ u' = control_mpc(dyn, obs)
            /\ pc' = "clip"
            /\ ret' = ret
       ELSE IF args.controller.type \in {"BoundClosedLoopController", "Sequential"}
       THEN /\ u' = control_nn(obs, args.controller)
            /\ pc' = "clip"
            /\ ret' = ret
       ELSE /\ ret' = Raise("NotImplementedError")
            /\ pc' = "raised"
            /\ u' = u
    /\ UNCHANGED << dyn, args, call, rng, tape, num_timesteps, bound, num_runs, xs, us,
                    t, step, obs, ret1 >>

\* a run that never clips
ClipAppliesNever(clip_control, u_limits) == FALSE

\* line 237: whether the control is clipped
ClipApplies(clip_control, u_limits) == clip_control /\ ~IsNone(u_limits)

\* lines 237-238: clip the control to the limits
RunClip ==
    /\ UNCHANGED << reachVars, regionVars, mainVars, sampleVars >>
    /\ UNCHANGED << xs_writes, us_writes >>
    /\ pc = "clip"
    /\ u' = IF ClipApplies(args.clip_control, dyn.u_limits) THEN Clip(u, dyn.u_limits) ELSE u
    /\ pc' = "dynamics"
    /\ UNCHANGED << dyn, args, call, rng, tape, num_timesteps, bound, num_runs, xs, us,
                    t, step, obs, ret, ret1 >>

\* a step taken from the observation instead of the state
SteppedRowsObs(arr, o, k) == o

\* line 241: the rows dynamics_step is given as the state
SteppedRows(arr, o, k) == Slice(arr, k)

\* a control recorded beside the state it leads to
ControlIndexNext(k) == k + 1

\* line 243: the time index the control of step k is recorded at
ControlIndex(k) == k

\* lines 240-245: step the dynamics, record state and control, advance time
RunDynamicsStep ==
    /\ UNCHANGED << reachVars, regionVars, mainVars, sampleVars >>
    /\ pc = "dynamics"
    /\ \E tp \in Fill(tape, rng, DynamicsDraws(dyn, Len(xs))) :
          LET nxt == dynamics_step(dyn, SteppedRows(xs, obs, step), u,
                                   DrawsOf(tp, rng, DynamicsDraws(dyn, Len(xs))))
          IN  /\ tape' = tp
              /\ rng' = Advance(rng, DynamicsDraws(dyn, Len(xs)))
              /\ IF step + 1 >= num_timesteps
                 THEN /\ ret' = Raise("IndexError")
                      /\ pc' = "raised"
                      /\ UNCHANGED << xs, us, t, step, xs_writes, us_writes >>
                 ELSE /\ xs' = SetSlice(xs, step + 1, nxt)
                      /\ xs_writes' = [xs_writes EXCEPT ![step + 2] = @ + 1]
                      /\ us' = SetSlice(us, ControlIndex(step), u)
                      /\ us_writes' = [us_writes EXCEPT ![ControlIndex(step) + 1] = @ + 1]
                      /\ step' = step + 1
                      /\ t' = NextTime(t, dyn.dt)
                      /\ pc' = "loop"
                      /\ ret' = ret
    /\ UNCHANGED << dyn, args, call, num_timesteps, bound, num_runs, obs, u, ret1 >>

\* lines 247-252: return the buffers, flattened with merge_cols
RunReturn ==
    /\ UNCHANGED << reachVars, regionVars, mainVars, sampleVars >>
    /\ UNCHANGED << xs_writes, us_writes >>
    /\ pc = "loop"
    /\ ~LoopCondition(t, args.t_max)
    /\ ret' = IF args.merge_cols THEN Return(Reshape(xs, 1), Reshape(us, 1))
              ELSE Return(xs, us)
    /\ pc' = "returned"
    /\ UNCHANGED << dyn, args, call, rng, tape, num_timesteps, bound, num_runs, xs, us,
                    t, step, obs, u, ret1 >>

\* the caller keeps the first call's outcome and calls again with the same
\* arguments
CallAgain ==
    /\ UNCHANGED << reachVars, regionVars, mainVars, sampleVars >>
    /\ pc \in {"returned", "raised"}
    /\ call = 1
    /\ ret1' = ret
    /\ call' = 2
    /\ pc' = "idle"
    /\ num_timesteps' = 0
    /\ bound' = FALSE
    /\ num_runs' = 0
    /\ xs' = << >>
    /\ us' = << >>
    /\ xs_writes' = << >>
    /\ us_writes' = << >>
    /\ t' = 0
    /\ step' = 0
    /\ obs' = << >>
    /\ u' = << >>
    /\ ret' = NoRet
    /\ UNCHANGED << dyn, args, rng, tape >>

RunNext ==
    \/ Consume
    \/ RunEntry
    \/ RunInitialState
    \/ RunObserve
    \/ RunControl
    \/ RunClip
    \/ RunDynamicsStep
    \/ RunReturn
    \/ CallAgain

vars == << runVars, reachVars, regionVars, mainVars, sampleVars >>

\* two calls of Dynamics.run with the same arguments
Init == RunInit /\ ReachOff /\ RegionOff /\ MainOff /\ SampleOff
Next == RunNext
Spec == Init /\ [][Next]_vars

\* =====================================================================
\* Properties of Dynamics.run
\* =====================================================================
\* the vectors of a noise range (the zero vector when there is no noise)
NoiseVectors(noise, n) ==
    IF IsNone(noise) THEN {Zeros(n)}
    ELSE {v \in [1..n -> SetMin({noise[i][1] : i \in 1..n})..SetMax({noise[i][2] : i \in 1..n})]
            : InBox(noise, v)}

\* the controller's output for one observation
ControlOf(y) ==
    IF args.controller.type = "mpc" THEN control_mpc(dyn, << y >>)[1]
    ELSE Forward(args.controller, y)

\* whether v is componentwise within the control limits
WithinLimits(v) ==
    \A j \in 1..Len(v) : dyn.u_limits[j][1] <= v[j] /\ v[j] <= dyn.u_limits[j][2]

\* the control limits are in force for this call
Clipping == args.clip_control /\ dyn.u_limits /= None

\* the closest point of the control-limit box
Nearest(v) ==
    [j \in 1..Len(v) |->
        IF v[j] < dyn.u_limits[j][1] THEN dyn.u_limits[j][1]
        ELSE IF v[j] > dyn.u_limits[j][2] THEN dyn.u_limits[j][2] ELSE v[j]]

\* the call is past drawing its initial states
Started == pc \in {"loop", "control", "clip", "dynamics", "returned"}

\* C3: the time-stepping loop ends normally having executed exactly
\* ceil(t_max / dt) steps, whatever t_max >= 0 and dt > 0
C3_ExactlyCeilSteps ==
    pc = "returned" => step = CeilDiv(args.t_max, dyn.dt)

\* C4: for every executed step k and every run, the recorded control us[k] is
\* the clamped controller output for an observation of the state xs[k], and
\* the recorded state xs[k+1] is the dynamics step of the state xs[k] (not of
\* its observation) under that recorded, clamped control
C4_StepOrder ==
    Started =>
        \A r \in 1..Len(xs) : \A k \in 1..step :
            /\ \E v \in NoiseVectors(dyn.sensor_noise, dyn.num_states) :
                  LET raw == ControlOf(VecAdd(MatVec(dyn.c, xs[r][k]), v))
                  IN  us[r][k] = IF Clipping THEN Nearest(raw) ELSE raw
            /\ \E w \in NoiseVectors(dyn.process_noise, dyn.num_states) :
                  xs[r][k + 1] =
                      VecAdd(VecAdd(VecAdd(MatVec(dyn.At, xs[r][k]), MatVec(dyn.bt, us[r][k])),
                                    dyn.ct), w)

\* two steps were taken by a run whose observation differs from its state
\* and whose control was changed by the clamp
C4_Witness ==
    /\ pc = "returned" /\ step = 2 /\ Len(xs) >= 1
    /\ MatVec(dyn.c, xs[1][2]) /= xs[1][2]
    /\ Clipping
    /\ \E v \in NoiseVectors(dyn.sensor_noise, dyn.num_states) :
          LET raw == ControlOf(VecAdd(MatVec(dyn.c, xs[1][2]), v))
          IN  raw /= us[1][2] /\ us[1][2] = Nearest(raw)

\* C5: with clip_control on and limits set, the control handed to
\* dynamics_step and every control recorded in us is within the limits; with
\* no limits or clip_control off the controller output is handed on unchanged
C5_ControlLimits ==
    /\ (pc = "dynamics" /\ Clipping) => \A r \in 1..Len(u) : WithinLimits(u[r])
    /\ (Started /\ Clipping) => \A r \in 1..Len(us) : \A k \in 1..step : WithinLimits(us[r][k])
    /\ (pc = "dynamics" /\ ~Clipping) => \A r \in 1..Len(u) : u[r] = ControlOf(obs[r])

\* a controller output outside the limits is about to be handed, clamped, to
\* dynamics_step
C5_Witness ==
    /\ pc = "dynamics" /\ Clipping /\ Len(u) >= 1
    /\ ~WithinLimits(ControlOf(obs[1]))

\* whether x0 is in the input region of the call
InInputRegion(x0) ==
    LET c == args.input_constraint
    IN  IF c.type = "Lp" THEN InBox(c.range, x0) ELSE InPolytope(c.A, c.b, x0)

\* C6: every trajectory of run starts in the input region, and xs and us keep
\* the same number of runs
C6_StartsInRegion ==
    /\ Started => /\ Len(xs) = Len(us)
                  /\ \A r \in 1..Len(xs) : InInputRegion(xs[r][1])
    /\ (pc = "returned" /\ ~args.merge_cols) =>
          /\ Len(ret.xs) = Len(ret.us)
          /\ \A r \in 1..Len(ret.xs) : InInputRegion(ret.xs[r][1])
    /\ (pc = "returned" /\ args.merge_cols) =>
          /\ Len(ret.xs) = Len(ret.us)
          /\ \A r \in 1..Len(xs) : InInputRegion(ret.xs[(r - 1) * num_timesteps + 1])

\* a polytope call returned after discarding some, but not all, of its runs
C6_Witness ==
    /\ pc = "returned"
    /\ args.input_constraint.type = "Polytope"
    /\ Len(xs) >= 1 /\ Len(xs) < num_runs

\* C7: the second of two calls of run with the same arguments returns (or
\* raises) exactly what the first did, whatever was drawn from the global
\* random source in between
C7_Deterministic ==
    (call = 2 /\ pc \in {"returned", "raised"}) => ret = ret1

\* the second call returned sampled trajectories of at least one step
C7_Witness ==
    /\ call = 2 /\ pc = "returned" /\ step >= 1
    /\ Len(ret.xs) >= 1
    /\ dyn.sensor_noise /= None

\* =====================================================================
\* ClosedLoopAnalyzer.get_reachable_set: partition, propagate, merge, chain
\* =====================================================================
\* a box with rational bounds: range[i] = <<low_i, high_i>> counted in
\* units of 1 / den
Box(den, range) == [den |-> den, range |-> range]

\* the sequence << f[1], ..., f[n] >>, each element computed once
RECURSIVE Tuple(_, _)
Tuple(f, n) == IF n = 0 THEN << >> ELSE Append(Tuple(f, n - 1), f[n])

\* the box of an LpInputConstraint
BoxOf(c) == Box(1, c.range)

\* contains(point): low <= x <= high
Contains(box, x) ==
    \A i \in 1..Len(box.range) :
        box.range[i][1] <= x[i] * box.den /\ x[i] * box.den <= box.range[i][2]

RECURSIVE Prod(_, _)
Prod(f, k) == IF k = 0 THEN 1 ELSE f[k] * Prod(f, k - 1)

\* a grid that forgets the stride of the dimensions
CellIndexFlat(counts, k, i) == (k - 1) % counts[i]

\* the position along dimension i of the k-th cell (k from 1, last dimension
\* fastest) of a grid of counts[i] cells per dimension
CellIndex(counts, k, i) ==
    ((k - 1) \div Prod([j \in 1..(Len(counts) - i) |-> counts[i + j]], Len(counts) - i))
        % counts[i]

\* the k-th cell of the uniform grid: each dimension cut in counts[i] equal
\* intervals
UniformCell(box, counts, k) ==
    LET L == Prod(counts, Len(counts))
    IN  Box(box.den * L,
            Tuple([i \in 1..Len(counts) |->
                      LET w == (box.range[i][2] - box.range[i][1]) * (L \div counts[i])
                          lo == box.range[i][1] * L + CellIndex(counts, k, i) * w
                      IN  << lo, lo + w >>],
                  Len(counts)))

\* Partitioner.partition(input_region, policy)
Partition(box, policy) ==
    IF policy.type = "None" THEN << box >>
    ELSE Tuple([k \in 1..Prod(policy.num_partitions, Len(policy.num_partitions)) |->
                   UniformCell(box, policy.num_partitions, k)],
               Prod(policy.num_partitions, Len(policy.num_partitions)))

\* the interval of row . x for x in the box range
IntervalDot(row, range) ==
    << SumTo([j \in 1..Len(row) |->
                 IF row[j] >= 0 THEN row[j] * range[j][1] ELSE row[j] * range[j][2]],
             Len(row)),
       SumTo([j \in 1..Len(row) |->
                 IF row[j] >= 0 THEN row[j] * range[j][2] ELSE row[j] * range[j][1]],
             Len(row)) >>

\* the interval image of the box range under the matrix M
IntervalMat(M, range) == Tuple([i \in 1..Len(M) |-> IntervalDot(M[i], range)], Len(M))

IntervalAdd(a, b) ==
    Tuple([i \in 1..Len(a) |-> << a[i][1] + b[i][1], a[i][2] + b[i][2] >>], Len(a))

\* a vector, or a noise range (None: no noise), in units of 1 / den
Scaled(v, den) == Tuple([i \in 1..Len(v) |-> << v[i] * den, v[i] * den >>], Len(v))
ScaledRange(noise, den, n) ==
    IF IsNone(noise) THEN Tuple([i \in 1..n |-> << 0, 0 >>], n)
    ELSE Tuple([i \in 1..n |-> << noise[i][1] * den, noise[i][2] * den >>], n)

IntervalRelu(range) ==
    Tuple([i \in 1..Len(range) |-> << Max(range[i][1], 0), Max(range[i][2], 0) >>],
          Len(range))

\* the control-limit clamp on an interval
IntervalClamp(range, u_limits, den) ==
    IF IsNone(u_limits) THEN range
    ELSE Tuple([j \in 1..Len(range) |->
                   << Min(Max(range[j][1], u_limits[j][1] * den), u_limits[j][2] * den),
                      Min(Max(range[j][2], u_limits[j][1] * den), u_limits[j][2] * den) >>],
               Len(range))

\* interval bounds on the controller's output for observations in the range
ControlBounds(model, range, den) ==
    IntervalAdd(IntervalMat(model.W2,
                    IntervalRelu(IntervalAdd(IntervalMat(model.W1, range),
                                             Scaled(model.b1, den)))),
                Scaled(model.b2, den))

\* Propagator.propagate (IBP): observation, controller, clamp, dynamics step
Propagate(cell, model, self) ==
    LET den == cell.den
        o == IntervalAdd(IntervalMat(self.c, cell.range),
                         ScaledRange(self.sensor_noise, den, self.num_states))
        uu == IntervalClamp(ControlBounds(model, o, den), self.u_limits, den)
    IN  Box(den,
            IntervalAdd(IntervalAdd(IntervalAdd(IntervalMat(self.At, cell.range),
                                                IntervalMat(self.bt, uu)),
                                    Scaled(self.ct, den)),
                        ScaledRange(self.process_noise, den, self.num_states)))

\* the merge of the cells' outputs: per-dimension min / max
Merge(outs) ==
    Box(outs[1].den,
        Tuple([i \in 1..Len(outs[1].range) |->
                  << SetMin({outs[k].range[i][1] : k \in 1..Len(outs)}),
                     SetMax({outs[k].range[i][2] : k \in 1..Len(outs)}) >>],
              Len(outs[1].range)))

\* the partitioning policies for n dimensions: None, Uniform(cell_counts)
PartitionersFor(n) ==
    {[type |-> "None", num_partitions |-> << >>]}
        \cup {[type |-> "Uniform", num_partitions |-> cc] : cc \in [1..n -> 1..MaxCells]}

\* the analysed closed loops: the network controller, sampled by
\* get_sampled_output_range (collect_data, merge_cols=False, clipped control)
ReachArgsFor(self) ==
    {a \in ArgsFor(self) :
        /\ a.input_constraint.type = "Lp" /\ a.input_constraint.p = "inf"
        /\ a.controller.type \in {"Sequential", "BoundClosedLoopController"}
        /\ a.collect_data /\ a.clip_control /\ ~a.merge_cols
        /\ a.num_samples = MaxSamples}

ReachInit ==
    /\ dyn \in DynamicsSet
    /\ args \in ReachArgsFor(dyn)
    /\ pc = "caller"
    /\ RunLocalsOff
    /\ reach_pc = "start"
    /\ partitioner \in PartitionersFor(dyn.num_states)
    /\ elapsed = 0
    /\ current_input = NoRegion
    /\ sub_regions = << >>
    /\ cell_outputs = << >>
    /\ output_trajectory = << >>
    /\ RegionOff
    /\ MainOff
    /\ SampleOff

\* get_reachable_set(input_constraint, output_constraint, t_max) is entered
ReachStart ==
    /\ reach_pc = "start"
    /\ current_input' = BoxOf(args.input_constraint)
    /\ elapsed' = 0
    /\ output_trajectory' = << >>
    /\ reach_pc' = "loop"
    /\ UNCHANGED << partitioner, sub_regions, cell_outputs >>
    /\ UNCHANGED << runVars, regionVars, mainVars, sampleVars >>

\* the timestep loop goes on while the accumulated time is below t_max
ReachContinues(e, t_max) == e < t_max

\* step 2: the cells of the current input
ReachPartition ==
    /\ reach_pc = "loop"
    /\ ReachContinues(elapsed, args.t_max)
    /\ sub_regions' = Partition(current_input, partitioner)
    /\ cell_outputs' = [k \in 1..Len(sub_regions') |-> NoRegion]
    /\ reach_pc' = "propagate"
    /\ UNCHANGED << partitioner, elapsed, current_input, output_trajectory >>
    /\ UNCHANGED << runVars, regionVars, mainVars, sampleVars >>

\* step 3: one more cell is propagated (the cells in any order)
ReachPropagate ==
    /\ reach_pc = "propagate"
    /\ \E k \in 1..Len(sub_regions) :
          /\ cell_outputs[k] = NoRegion
          /\ cell_outputs' =
                [cell_outputs EXCEPT ![k] = Propagate(sub_regions[k], args.controller, dyn)]
    /\ UNCHANGED << reach_pc, partitioner, elapsed, current_input, sub_regions,
                    output_trajectory >>
    /\ UNCHANGED << runVars, regionVars, mainVars, sampleVars >>

\* the join before the merge: every cell has its output
AllPropagated(outs) == \A k \in 1..Len(outs) : outs[k] /= NoRegion

\* a loop that starts every timestep from the same region
NextInputKept(current, out) == current

\* step 5: the region the next timestep starts from
NextInput(current, out) == out

\* steps 4-5: merge the cells' outputs, append, chain
ReachMerge ==
    /\ reach_pc = "propagate"
    /\ AllPropagated(cell_outputs)
    /\ output_trajectory' = Append(output_trajectory, Merge(cell_outputs))
    /\ current_input' = NextInput(current_input, Merge(cell_outputs))
    /\ elapsed' = elapsed + dyn.dt
    /\ reach_pc' = "loop"
    /\ UNCHANGED << partitioner, sub_regions, cell_outputs >>
    /\ UNCHANGED << runVars, regionVars, mainVars, sampleVars >>

\* the trajectory is returned and the caller goes on to sample trajectories
ReachReturn ==
    /\ reach_pc = "loop"
    /\ ~ReachContinues(elapsed, args.t_max)
    /\ pc = "caller"
    /\ reach_pc' = "done"
    /\ pc' = "idle"
    /\ UNCHANGED << partitioner, elapsed, current_input, sub_regions, cell_outputs,
                    output_trajectory >>
    /\ UNCHANGED << dyn, args, call, rng, tape, num_timesteps, bound, num_runs, xs, us,
                    t, step, obs, u, ret, ret1, xs_writes, us_writes >>
    /\ UNCHANGED << regionVars, mainVars, sampleVars >>

ReachNext ==
    \/ ReachStart
    \/ ReachPartition
    \/ ReachPropagate
    \/ ReachMerge
    \/ ReachReturn
    \/ RunEntry
    \/ RunInitialState
    \/ RunObserve
    \/ RunControl
    \/ RunClip
    \/ RunDynamicsStep
    \/ RunReturn

\* get_reachable_set, then the sampling of true trajectories
SpecReach == ReachInit /\ [][ReachNext]_vars

\* C1: every sampled state of every step lies in the output region of that
\* step
C1_Sound ==
    (reach_pc = "done" /\ Started) =>
        \A r \in 1..Len(xs) : \A k \in 1..step :
            /\ k <= Len(output_trajectory)
            /\ Contains(output_trajectory[k], xs[r][k + 1])

\* sampled trajectories of two steps were returned beside a two-step
\* reachable set, and a sample lies on the boundary of its region
C1_Witness ==
    /\ reach_pc = "done" /\ pc = "returned" /\ step = 2 /\ Len(xs) >= 1
    /\ Len(output_trajectory) = 2
    /\ \E i \in 1..dyn.num_states :
          xs[1][3][i] * output_trajectory[2].den = output_trajectory[2].range[i][2]

\* the region a timestep started from, given the regions finished before it
StepInput(k) == IF k = 1 THEN BoxOf(args.input_constraint) ELSE output_trajectory[k - 1]

\* C2: the timesteps run in sequence: one region per finished step, the
\* first step starts from the initial region and every later one from the
\* previous merged output, the merged output is that of all the cells of the
\* step, and ceil(t_max / dt) regions are returned
C2_Sequential ==
    /\ reach_pc \in {"loop", "propagate", "done"} =>
          /\ Len(output_trajectory) * dyn.dt = elapsed
          /\ current_input = StepInput(Len(output_trajectory) + 1)
    /\ reach_pc = "propagate" => sub_regions = Partition(current_input, partitioner)
    /\ (reach_pc \in {"loop", "done"} /\ output_trajectory /= << >>) =>
          LET n == Len(output_trajectory)
          IN  /\ sub_regions = Partition(StepInput(n), partitioner)
              /\ \A k \in 1..Len(sub_regions) :
                    cell_outputs[k] = Propagate(sub_regions[k], args.controller, dyn)
              /\ output_trajectory[n] = Merge(cell_outputs)
    /\ reach_pc = "done" => Len(output_trajectory) = CeilDiv(args.t_max, dyn.dt)

\* a two-step analysis over a partition of several cells is finished
C2_Witness ==
    /\ reach_pc = "done"
    /\ Len(output_trajectory) = 2
    /\ Len(sub_regions) >= 2

\* =====================================================================
\* The partitioner and the conversions between the encodings
\* =====================================================================
\* Dynamics.run is not running
RunOff ==
    /\ dyn = << >>
    /\ args = << >>
    /\ pc = "off"
    /\ RunLocalsOff

\* the ranges of the n-dimensional boxes with low <= high on the grid
RegionRanges(n) ==
    {r \in [1..n -> ((-GridMax)..GridMax) \X ((-GridMax)..GridMax)] :
        \A i \in 1..n : r[i][1] <= r[i][2]}

RegionInit ==
    /\ \E n \in 1..2 :
          /\ region_box \in {Box(1, r) : r \in RegionRanges(n)}
          /\ region_policy \in PartitionersFor(n)
    /\ region_pc = "ready"
    /\ region_cells = << >>
    /\ region_polytope = << >>
    /\ region_back = << >>
    /\ RunOff
    /\ ReachOff
    /\ MainOff
    /\ SampleOff

\* partition(input_region, policy)
RegionPartition ==
    /\ region_pc = "ready"
    /\ region_cells' = Partition(region_box, region_policy)
    /\ region_pc' = "partitioned"
    /\ UNCHANGED << region_box, region_policy, region_polytope, region_back >>
    /\ UNCHANGED << runVars, reachVars, mainVars, sampleVars >>

\* the box as a polytope
RegionToPolytope ==
    /\ region_pc = "ready"
    /\ region_polytope' = init_state_range_to_polytope(region_box.range)
    /\ region_pc' = "polytope"
    /\ UNCHANGED << region_box, region_policy, region_cells, region_back >>
    /\ UNCHANGED << runVars, reachVars, mainVars, sampleVars >>

\* the polytope's enclosing box
RegionToBox ==
    /\ region_pc = "polytope"
    /\ region_back' = to_linf(region_polytope.A, region_polytope.b)
    /\ region_pc' = "box"
    /\ UNCHANGED << region_box, region_policy, region_cells, region_polytope >>
    /\ UNCHANGED << runVars, reachVars, mainVars, sampleVars >>

RegionNext ==
    \/ RegionPartition
    \/ RegionToPolytope
    \/ RegionToBox

SpecRegion == RegionInit /\ [][RegionNext]_vars

\* the point of the box at j[i] half cell widths from its low corner, in
\* units of 1 / (2 L), L the product of the cell counts
HalfCellPoint(range, counts, j) ==
    LET L == Prod(counts, Len(counts))
    IN  [i \in 1..Len(counts) |->
            2 * L * range[i][1] + j[i] * (range[i][2] - range[i][1]) * (L \div counts[i])]

\* C8: partition with policy None returns the one-element list of the input
\* region; with Uniform(cell_counts) on a box it returns prod(cell_counts)
\* sub-boxes, each dimension cut in cell_counts[i] equal intervals on the
\* lattice of the box, none reaching outside the box, and every corner and
\* every centre of a lattice cell lies in a sub-box (so the lattice cells are
\* all there and their union is the box)
C8_Partition ==
    region_pc = "partitioned" =>
        IF region_policy.type = "None" THEN region_cells = << region_box >>
        ELSE
            LET counts == region_policy.num_partitions
                n == Len(counts)
                L == Prod(counts, n)
                range == region_box.range
            IN  /\ Len(region_cells) = L
                /\ \A k \in 1..Len(region_cells) : \A i \in 1..n :
                      LET c == region_cells[k].range[i]
                      IN  /\ region_cells[k].den = L
                          /\ (c[2] - c[1]) * counts[i] = (range[i][2] - range[i][1]) * L
                          /\ \E j \in 0..(counts[i] - 1) :
                                c[1] * counts[i] =
                                    range[i][1] * L * counts[i]
                                        + j * (range[i][2] - range[i][1]) * L
                          /\ range[i][1] * L <= c[1]
                          /\ c[2] <= range[i][2] * L
                /\ \A j \in [1..n -> 0..(2 * MaxCells)] :
                      (\A i \in 1..n : j[i] <= 2 * counts[i]) =>
                          \E k \in 1..Len(region_cells) : \A i \in 1..n :
                              /\ 2 * region_cells[k].range[i][1]
                                    <= HalfCellPoint(range, counts, j)[i]
                              /\ HalfCellPoint(range, counts, j)[i]
                                    <= 2 * region_cells[k].range[i][2]

\* a box of odd widths has been cut in four
C8_Witness ==
    /\ region_pc = "partitioned"
    /\ region_policy.type = "Uniform"
    /\ Len(region_cells) = 4
    /\ Len(region_box.range) = 2
    /\ \A i \in 1..2 : (region_box.range[i][2] - region_box.range[i][1]) % 2 = 1

\* C9: a box with low <= high becomes the polytope of 2n rows A = [I; -I],
\* b = [high; -low], and that polytope's enclosing box is the box again
C9_RoundTrip ==
    /\ region_pc \in {"polytope", "box"} =>
          LET n == Len(region_box.range)
              A == region_polytope.A
              b == region_polytope.b
          IN  /\ Len(A) = 2 * n /\ Len(b) = 2 * n
              /\ \A i \in 1..n :
                    /\ \A j \in 1..n :
                          /\ A[i][j] = (IF i = j THEN 1 ELSE 0)
                          /\ A[n + i][j] = (IF i = j THEN -1 ELSE 0)
                    /\ b[i] = region_box.range[i][2]
                    /\ b[n + i] = -region_box.range[i][1]
    /\ region_pc = "box" => region_back = region_box.range

\* a box with a side of positive length and a side of length zero made the
\* round trip
C9_Witness ==
    /\ region_pc = "box"
    /\ Len(region_box.range) = 2
    /\ region_box.range[1][1] < region_box.range[1][2]
    /\ region_box.range[2][1] = region_box.range[2][2]
    /\ region_box.range[2][1] /= 0

\* =====================================================================
\* The drivers' main(args)
\* =====================================================================
\* num_calls of the runtime estimate
NumCalls == 5

NnClosedLoop == "nn_closed_loop/example.py"
ClosedLoop == "closed_loop/example.py"
Drivers == {NnClosedLoop, ClosedLoop}

\* the choices= of --system and of --boundaries
ParserSystems(d) ==
    IF d = NnClosedLoop THEN {"double_integrator", "quadrotor"}
    ELSE {"double_integrator_mpc", "quarotor"}
ParserBoundaries(d) == {"lp", "polytope"}

\* the systems and boundaries main has a branch for
MainSystems(d) ==
    IF d = NnClosedLoop THEN {"double_integrator", "quadrotor"}
    ELSE {"double_integrator_mpc", "quadrotor"}
MainBoundaries(d) == {"polytope", "lp"}

\* the argument values main may be called with
Systems == {"double_integrator", "double_integrator_mpc", "quadrotor", "quarotor", "pendulum"}
Boundaries == {"lp", "polytope", "ellipsoid"}

\* args: --init_state_range exists in nn_closed_loop only (None or a literal)
MainArgsFor(d) ==
    [system : Systems, state_feedback : BOOLEAN, boundaries : Boundaries,
     init_state_range : IF d = NnClosedLoop THEN {None, << <<0, 1>>, <<0, 1>> >>} ELSE {None},
     estimate_runtime : BOOLEAN]

\* parser.parse_args() accepts the arguments
MainAccepted == margs.system \in ParserSystems(driver) /\ margs.boundaries \in ParserBoundaries(driver)

\* main has a branch for the system and for the boundaries
MainRecognized == margs.system \in MainSystems(driver) /\ margs.boundaries \in MainBoundaries(driver)

MainInit ==
    /\ driver \in Drivers
    /\ margs \in MainArgsFor(driver)
    /\ main_pc = "start"
    /\ locals = {}
    /\ main_exc = ""
    /\ calls = 0
    /\ RunOff
    /\ ReachOff
    /\ RegionOff
    /\ SampleOff

MainRaise(e) ==
    /\ main_pc' = "raised"
    /\ main_exc' = e
    /\ UNCHANGED << driver, margs, locals, calls >>

\* controller = load_controller(name=args.system)
MainLoadController ==
    /\ main_pc = "start"
    /\ locals' = locals \cup {"controller"}
    /\ main_pc' = "dynamics"
    /\ UNCHANGED << driver, margs, main_exc, calls >>
    /\ UNCHANGED << runVars, reachVars, regionVars, sampleVars >>

\* the names the branch of the system binds
DynamicsLocals(d, a) ==
    IF d = NnClosedLoop THEN {"dyn", "init_state_range"}
    ELSE IF a.system = "double_integrator_mpc" THEN {"dyn", "init_state_range"}
    ELSE IF a.state_feedback THEN {"dyn"}
    ELSE {"dyn", "init_state_range"}

\* the if / elif / else on args.system
MainDynamics ==
    /\ main_pc = "dynamics"
    /\ IF margs.system \in MainSystems(driver)
       THEN /\ locals' = locals \cup DynamicsLocals(driver, margs)
            /\ main_pc' = "hyperparams"
            /\ UNCHANGED << driver, margs, main_exc, calls >>
       ELSE MainRaise("NotImplementedError")
    /\ UNCHANGED << runVars, reachVars, regionVars, sampleVars >>

\* the hyperparameters (they read init_state_range.shape) and the analyzer
MainHyperparams ==
    /\ main_pc = "hyperparams"
    /\ IF "init_state_range" \in locals
       THEN /\ locals' = locals \cup {"partitioner_hyperparams", "propagator_hyperparams",
                                     "analyzer"}
            /\ main_pc' = "constraints"
            /\ UNCHANGED << driver, margs, main_exc, calls >>
       ELSE MainRaise("UnboundLocalError")
    /\ UNCHANGED << runVars, reachVars, regionVars, sampleVars >>

\* the bare names the polytope branch reads
PolytopeReads(d) == IF d = NnClosedLoop THEN {"init_state_range"} ELSE {"init_state_range", "system"}

\* the if / elif / else on args.boundaries
MainConstraints ==
    /\ main_pc = "constraints"
    /\ IF margs.boundaries = "polytope"
       THEN IF PolytopeReads(driver) \subseteq locals
            THEN /\ locals' = locals \cup {"A_inputs", "b_inputs", "A_out", "input_constraint",
                                          "output_constraint"}
                 /\ main_pc' = "analyze"
                 /\ UNCHANGED << driver, margs, main_exc, calls >>
            ELSE MainRaise("NameError")
       ELSE IF margs.boundaries = "lp"
       THEN /\ locals' = locals \cup {"input_constraint", "output_constraint"}
            /\ main_pc' = "analyze"
            /\ UNCHANGED << driver, margs, main_exc, calls >>
       ELSE MainRaise("NotImplementedError")
    /\ UNCHANGED << runVars, reachVars, regionVars, sampleVars >>

\* one call of get_reachable_set in the runtime estimate
MainEstimate ==
    /\ main_pc = "analyze"
    /\ margs.estimate_runtime
    /\ calls < NumCalls
    /\ calls' = calls + 1
    /\ UNCHANGED << main_pc, driver, margs, locals, main_exc >>
    /\ UNCHANGED << runVars, reachVars, regionVars, sampleVars >>

\* the call of get_reachable_set whose result is plotted
MainGetReachableSet ==
    /\ main_pc = "analyze"
    /\ margs.estimate_runtime => calls = NumCalls
    /\ calls' = calls + 1
    /\ main_pc' = "called"
    /\ UNCHANGED << driver, margs, locals, main_exc >>
    /\ UNCHANGED << runVars, reachVars, regionVars, sampleVars >>

MainNext ==
    \/ MainLoadController
    \/ MainDynamics
    \/ MainHyperparams
    \/ MainConstraints
    \/ MainEstimate
    \/ MainGetReachableSet

SpecMain == MainInit /\ [][MainNext]_vars

\* C10: a system or boundaries main has no branch for never reaches the call
\* of get_reachable_set, and for every recognized combination of system,
\* feedback mode and boundaries that the parser accepts main raises no error
\* of its own on the way to the call
C10_OnlyUnimplemented ==
    /\ ~MainRecognized => main_pc \notin {"analyze", "called"}
    /\ (main_pc = "raised" /\ ~MainRecognized) => calls = 0
    /\ (MainAccepted /\ MainRecognized) => main_pc /= "raised"

\* =====================================================================
\* Dynamics.run, Dynamics.collect_data and Dynamics.get_sampled_output_range
\* called once
\* =====================================================================
SampleOps == {"run", "collect_data", "get_sampled_output_range"}

\* the arguments run receives: collect_data passes collect_data=True and
\* leaves clip_control at its default, get_sampled_output_range passes
\* merge_cols=False on top
SampleArgsFor(self, op) ==
    {a \in ArgsFor(self) :
        /\ op /= "run" => (a.collect_data /\ a.clip_control)
        /\ op = "get_sampled_output_range" => ~a.merge_cols}

SampleInit ==
    /\ dyn \in DynamicsSet
    /\ sample_op \in SampleOps
    /\ args \in SampleArgsFor(dyn, sample_op)
    /\ pc = "caller"
    /\ RunLocalsOff
    /\ sample_pc = "start"
    /\ sampled_range = << >>
    /\ sample_ret = [kind |-> "none", exc |-> ""]
    /\ ReachOff
    /\ RegionOff
    /\ MainOff

\* lines 75-81 and 158-166: the operation calls run
SampleCall ==
    /\ sample_pc = "start"
    /\ pc = "caller"
    /\ pc' = "idle"
    /\ sample_pc' = "run"
    /\ UNCHANGED << dyn, args, call, rng, tape, num_timesteps, bound, num_runs, xs, us,
                    t, step, obs, u, ret, ret1, xs_writes, us_writes >>
    /\ UNCHANGED << sample_op, sampled_range, sample_ret >>
    /\ UNCHANGED << reachVars, regionVars, mainVars >>

\* line 167: run and collect_data hand on what run returned or raised;
\* get_sampled_output_range goes on with the arrays (line 83)
SampleCollected ==
    /\ sample_pc = "run"
    /\ pc \in {"returned", "raised"}
    /\ IF pc = "raised"
       THEN /\ sample_ret' = [kind |-> "raise", exc |-> ret.exc]
            /\ sample_pc' = "raised"
       ELSE IF sample_op = "get_sampled_output_range"
       THEN /\ sample_pc' = "range"
            /\ sample_ret' = sample_ret
       ELSE /\ sample_ret' = [kind |-> "return", exc |-> ""]
            /\ sample_pc' = "done"
    /\ UNCHANGED << sample_op, sampled_range >>
    /\ UNCHANGED << runVars, reachVars, regionVars, mainVars >>

\* lines 88-91: per timestep 1..num_timesteps-1 the min and max over the runs
SampledRange(arr, timesteps, states) ==
    [tt \in 1..(timesteps - 1) |->
        [i \in 1..states |->
            << SetMin({arr[r][tt + 1][i] : r \in 1..Len(arr)}),
               SetMax({arr[r][tt + 1][i] : r \in 1..Len(arr)}) >>]]

\* lines 83-95: the sampled range of a box input; np.min of no runs raises
GetSampledOutputRange ==
    /\ sample_pc = "range"
    /\ IF args.input_constraint.type = "Polytope"
       THEN /\ sample_ret' = [kind |-> "raise", exc |-> "NotImplementedError"]
            /\ sample_pc' = "raised"
            /\ sampled_range' = sampled_range
       ELSE IF args.input_constraint.type = "Lp"
       THEN IF Len(ret.xs) = 0 /\ num_timesteps > 1
            THEN /\ sample_ret' = [kind |-> "raise", exc |-> "ValueError"]
                 /\ sample_pc' = "raised"
                 /\ sampled_range' = sampled_range
            ELSE /\ sampled_range' = SampledRange(ret.xs, num_timesteps, dyn.num_states)
                 /\ sample_ret' = [kind |-> "return", exc |-> ""]
                 /\ sample_pc' = "done"
       ELSE /\ sample_ret' = [kind |-> "raise", exc |-> "NotImplementedError"]
            /\ sample_pc' = "raised"
            /\ sampled_range' = sampled_range
    /\ UNCHANGED sample_op
    /\ UNCHANGED << runVars, reachVars, regionVars, mainVars >>

SampleNext ==
    \/ SampleCall
    \/ RunEntry
    \/ RunInitialState
    \/ RunObserve
    \/ RunControl
    \/ RunClip
    \/ RunDynamicsStep
    \/ RunReturn
    \/ SampleCollected
    \/ GetSampledOutputRange

SpecSample == SampleInit /\ [][SampleNext]_vars

\* the input regions run does not support: a box whose norm is not
\* L-infinity, or a region that is neither a box nor a polytope
RunUnsupported(c) == c.type \notin {"Lp", "Polytope"} \/ (c.type = "Lp" /\ c.p /= "inf")

\* C11: for an unsupported input region run raises NotImplementedError before
\* any simulation step, and get_sampled_output_range on a polytope or any
\* other non-box region returns no range and raises NotImplementedError
C11_NamedErrors ==
    /\ RunUnsupported(args.input_constraint) =>
          /\ ~Started
          /\ step = 0
          /\ pc = "raised" => ret.exc = "NotImplementedError"
    /\ (sample_op = "get_sampled_output_range" /\ args.input_constraint.type /= "Lp") =>
          /\ sample_pc /= "done"
          /\ sampled_range = << >>
          /\ sample_pc = "raised" => sample_ret.exc = "NotImplementedError"

\* the controllers run has a branch for
ControllerKnown(c) == c.type \in {"mpc", "BoundClosedLoopController", "Sequential"}

\* an L-infinity box
IsLinfBox(c) == c.type = "Lp" /\ c.p = "inf"

\* C12: on an L-infinity box get_sampled_output_range returns one
\* << min, max >> box per timestep 1..num_timesteps-1: entry t has as low the
\* minimum and as high the maximum over the runs of the states at step t, so
\* low <= high and every sampled state of step t lies in the box
C12_SampledRange ==
    (/\ sample_op = "get_sampled_output_range"
     /\ IsLinfBox(args.input_constraint)
     /\ ControllerKnown(args.controller)) =>
        /\ sample_pc /= "raised"
        /\ sample_pc = "done" =>
              /\ Len(sampled_range) = num_timesteps - 1
              /\ \A tt \in 1..(num_timesteps - 1) : \A i \in 1..dyn.num_states :
                    /\ sampled_range[tt][i][1] <= sampled_range[tt][i][2]
                    /\ \A r \in 1..Len(ret.xs) :
                          /\ sampled_range[tt][i][1] <= ret.xs[r][tt + 1][i]
                          /\ ret.xs[r][tt + 1][i] <= sampled_range[tt][i][2]
                    /\ \E r \in 1..Len(ret.xs) :
                          sampled_range[tt][i][1] = ret.xs[r][tt + 1][i]
                    /\ \E r \in 1..Len(ret.xs) :
                          sampled_range[tt][i][2] = ret.xs[r][tt + 1][i]

\* C13: on an L-infinity box collect_data returns
\* floor(num_samples / num_timesteps) trajectories of num_timesteps states
\* each, num_timesteps = floor((t_max + dt) / dt); runs x timesteps is at most
\* num_samples, and with merge_cols the result has runs x timesteps rows, xs
\* and us alike
C13_CollectDataCounts ==
    (/\ sample_op = "collect_data"
     /\ IsLinfBox(args.input_constraint)
     /\ ControllerKnown(args.controller)) =>
        LET timesteps == (args.t_max + dyn.dt) \div dyn.dt
            runs == args.num_samples \div timesteps
        IN  /\ sample_pc /= "raised"
            /\ runs * timesteps <= args.num_samples
            /\ sample_pc = "done" =>
                  IF args.merge_cols
                  THEN /\ Len(ret.xs) = runs * timesteps
                       /\ Len(ret.us) = runs * timesteps
                  ELSE /\ Len(ret.xs) = runs
                       /\ Len(ret.us) = runs
                       /\ \A r \in 1..runs :
                             Len(ret.xs[r]) = timesteps /\ Len(ret.us[r]) = timesteps

\* C14: whatever t_max and dt, the time indices a step writes, step + 1 into
\* xs and step into us, are below num_timesteps: no write goes past the end of
\* the buffers (numpy answers such a write with IndexError)
C14_WritesInBounds ==
    /\ pc = "dynamics" => (step + 1 < num_timesteps /\ step < num_timesteps)
    /\ pc = "raised" => ret.exc /= "IndexError"

\* C15: each executed step k has assigned us[:, k, :] once and xs[:, k + 1, :]
\* once and nothing else has been assigned by a step; the last time index of
\* us is never assigned and is all zero, also in the returned array, where
\* with merge_cols the row of each run's last state goes with an all-zero
\* control row
C15_LastControlUnwritten ==
    bound =>
        /\ \A k \in 0..(num_timesteps - 1) :
              us_writes[k + 1] = (IF k < step THEN 1 ELSE 0)
        /\ \A k \in 1..(num_timesteps - 1) :
              xs_writes[k + 1] = (IF k <= step THEN 1 ELSE 0)
        /\ us_writes[num_timesteps] = 0
        /\ \A r \in 1..Len(us) : us[r][num_timesteps] = Zeros(dyn.num_inputs)
        /\ pc = "returned" =>
              IF args.merge_cols
              THEN \A r \in 1..Len(xs) :
                      /\ ret.xs[r * num_timesteps] = xs[r][num_timesteps]
                      /\ ret.us[r * num_timesteps] = Zeros(dyn.num_inputs)
              ELSE \A r \in 1..Len(us) : ret.us[r][num_timesteps] = Zeros(dyn.num_inputs)

\* a run of two steps has returned merged arrays in which a nonzero control
\* was recorded and the last state is not zero
C15_Witness ==
    /\ pc = "returned" /\ args.merge_cols /\ step = 2 /\ Len(xs) >= 1
    /\ us[1][2] /= Zeros(dyn.num_inputs)
    /\ ret.xs[num_timesteps] /= Zeros(dyn.num_states)
    /\ ret.us[num_timesteps] = Zeros(dyn.num_inputs)

====
